---------------------------- MODULE Spec2Model ----------------------------
(***************************************************************************)
(* KarmaBot: the moderation command pipeline (app/handlers/moderator.py)   *)
(* and the karma-change pipeline (app/handlers/change_karma.py).           *)
(*                                                                         *)
(* Every inbound message is handled by its own task; a task suspends at    *)
(* each await, so the steps of different tasks interleave.  One action of  *)
(* the model is the code of one handler between two suspension points.     *)
(*                                                                         *)
(* A string is modelled as a sequence of words, a word as a sequence of    *)
(* one-character strings.                                                  *)
(***************************************************************************)
EXTENDS Integers, Sequences, FiniteSets, TLC

VARIABLES
    task,       \* moderation: the handler task of each message in flight
    audit,      \* the ModeratorEvent rows, in the order they were saved
    users,      \* the local User rows the moderation handlers resolved
    ktask,      \* karma: the handler task of each message in flight
    karma,      \* the UserKarma rows: (user, chat) -> karma
    last_call,  \* the throttle's last-invocation time of each actor
    now,        \* the clock, in seconds
    applied,    \* history: the change_or_create calls in the order they ran
    split       \* split_text_file / send_text_file on one log file

vars == <<task, audit, users, ktask, karma, last_call, now, applied, split>>

(***************************************************************************)
(* Identities.                                                             *)
(***************************************************************************)
Tasks == {"t1", "t2"}

Users == {"u1", "u2"}

(* the two messages in flight come from the two users, each naming the
   other as its target *)
Sender(t) == IF t = "t1" THEN "u1" ELSE "u2"

Target(t) == IF t = "t1" THEN "u2" ELSE "u1"

TheChat == "c1"

(***************************************************************************)
(* Durations are whole seconds.                                            *)
(***************************************************************************)
FOREVER_DURATION == 31622400

DEFAULT_DURATION == 3600

(***************************************************************************)
(* Words.                                                                  *)
(***************************************************************************)
Digits == <<"0", "1", "2", "3", "4", "5", "6", "7", "8", "9">>

IsDigit(c) == \E i \in 1..Len(Digits) : Digits[i] = c

DigitVal(c) == (CHOOSE i \in 1..Len(Digits) : Digits[i] = c) - 1

IsUnit(c) == c \in {"m", "h", "d"}

UnitSeconds(c) == CASE c = "m" -> 60
                    [] c = "h" -> 60 * 60
                    [] c = "d" -> 24 * 60 * 60

ForeverWord == <<"forever">>

(***************************************************************************)
(* parse_timedelta_from_text: groups of an integer count followed by a     *)
(* unit suffix.  ParseFrom scans the word w from position i with acc       *)
(* seconds gathered, n the count being read and have = a digit was read.   *)
(* The result is <<"ok", seconds>> or <<"error", w>>.                      *)
(***************************************************************************)
RECURSIVE ParseFrom(_, _, _, _, _)
ParseFrom(w, i, acc, n, have) ==
    IF i > Len(w)
    THEN IF have \/ Len(w) = 0 THEN <<"error", w>> ELSE <<"ok", acc>>
    ELSE IF IsDigit(w[i])
         THEN ParseFrom(w, i + 1, acc, n * 10 + DigitVal(w[i]), TRUE)
         ELSE IF IsUnit(w[i]) /\ have
              THEN ParseFrom(w, i + 1, acc + n * UnitSeconds(w[i]), 0, FALSE)
              ELSE <<"error", w>>

parse_timedelta_from_text(w) ==
    IF w = ForeverWord THEN <<"ok", FOREVER_DURATION>>
    ELSE ParseFrom(w, 1, 0, 0, FALSE)

(***************************************************************************)
(* str.split(maxsplit=k) of a string of words: the first k words, then     *)
(* the rest of the string as one element.  Every element is a string.      *)
(***************************************************************************)
SplitMax(text, k) ==
    IF Len(text) <= k
    THEN [i \in 1..Len(text) |-> <<text[i]>>]
    ELSE [i \in 1..(k + 1) |->
             IF i <= k THEN <<text[i]>> ELSE SubSeq(text, k + 1, Len(text))]

(* " ".join of a sequence of strings *)
RECURSIVE Join(_)
Join(parts) == IF parts = <<>> THEN <<>> ELSE Head(parts) \o Join(Tail(parts))

(* text.split(maxsplit=1) in place of maxsplit=2 *)
get_moderator_message_args_maxsplit_1(text) ==
    LET args == Tail(SplitMax(text, 1))
    IN  IF args = <<>> THEN <<<<>>, <<>>>>
        ELSE IF Len(args) = 1 THEN <<args[1], <<>>>>
        ELSE <<args[1], Join(Tail(args))>>

(* the duration text is one word or the empty string "" *)
get_moderator_message_args(text) ==
    LET args == Tail(SplitMax(text, 2))
    IN  IF args = <<>> THEN <<<<>>, <<>>>>
        ELSE IF Len(args) = 1 THEN <<args[1], <<>>>>
        ELSE <<args[1], Join(Tail(args))>>

(* parse_timedelta_from_text raising TimedeltaParseError is ok = FALSE, with
   the text the error carries *)
get_duration(text) ==
    LET a == get_moderator_message_args(text)
        duration_text == a[1]
        comment == a[2]
    IN  IF duration_text # <<>>
        THEN LET p == parse_timedelta_from_text(duration_text[1])
             IN  IF p[1] = "ok"
                 THEN [ok |-> TRUE, duration |-> p[2], comment |-> comment,
                       error_text |-> <<>>]
                 ELSE [ok |-> FALSE, duration |-> 0, comment |-> <<>>,
                       error_text |-> p[2]]
        ELSE [ok |-> TRUE, duration |-> DEFAULT_DURATION, comment |-> comment,
              error_text |-> <<>>]

(***************************************************************************)
(* Messages.  The filters has_target, user_can_restrict_members,           *)
(* bot_can_restrict_members and bot_can_delete_messages are evaluated by   *)
(* the dispatcher; their outcomes are inputs.  The text after the command  *)
(* keyword is an input too; it is drawn where a handler first reads        *)
(* message.text (task.text is <<>> until then), since nothing before that  *)
(* point depends on it.                                                    *)
(***************************************************************************)
Commands == {"ro", "mute", "ban", "w", "warn"}

Flags == {"has_target", "user_can_restrict_members",
          "bot_can_restrict_members", "bot_can_delete_messages"}

W30m == <<"3", "0", "m">>
W366d == <<"3", "6", "6", "d">>
W367d == <<"3", "6", "7", "d">>
Wbad == <<"1", "x">>
Wspam == <<"s", "p", "a", "m">>
Wbot == <<"b", "o", "t">>

(* the text after the command keyword *)
ArgChoices == {<<>>, <<W30m>>, <<W367d>>, <<Wbad>>, <<W366d, Wspam, Wbot>>}

Keyword(command) == <<"!", command>>

(* message.text: the command keyword and the text after it *)
Text(command, args) == <<Keyword(command)>> \o args

NoMsg == [command |-> "none", flags |-> {},
          from_user |-> "none", target |-> "none"]

(***************************************************************************)
(* The registered handlers, in registration order.                         *)
(***************************************************************************)
(* cmd_ro registered without user_can_restrict_members=True *)
cmd_ro_filters_any_user ==
    [name |-> "cmd_ro", commands |-> {"ro", "mute"},
     filters |-> {"has_target", "bot_can_restrict_members"}]

cmd_ro_filters ==
    [name |-> "cmd_ro", commands |-> {"ro", "mute"},
     filters |-> {"has_target", "user_can_restrict_members",
                  "bot_can_restrict_members"}]

(* cmd_ban registered without bot_can_restrict_members=True *)
cmd_ban_filters_any_bot ==
    [name |-> "cmd_ban", commands |-> {"ban"},
     filters |-> {"has_target", "user_can_restrict_members"}]

cmd_ban_filters ==
    [name |-> "cmd_ban", commands |-> {"ban"},
     filters |-> {"has_target", "user_can_restrict_members",
                  "bot_can_restrict_members"}]

cmd_warn_filters ==
    [name |-> "cmd_warn", commands |-> {"w", "warn"},
     filters |-> {"has_target", "user_can_restrict_members"}]

(* the first cmd_ro_bot_not_admin: the bot lacks the rights *)
cmd_ro_bot_not_admin_filters ==
    [name |-> "cmd_ro_bot_not_admin", commands |-> {"ro", "mute", "ban"},
     filters |-> {"has_target", "user_can_restrict_members"}]

(* the second cmd_ro_bot_not_admin: the user lacks the rights *)
cmd_ro_user_not_admin_filters ==
    [name |-> "cmd_ro_user_not_admin", commands |-> {"ro", "mute", "ban", "warn"},
     filters |-> {"bot_can_delete_messages"}]

(* the user-lacks-rights fallback registered before the command handlers *)
Handlers_fallback_first ==
    <<cmd_ro_user_not_admin_filters, cmd_ro_filters, cmd_ban_filters,
      cmd_warn_filters, cmd_ro_bot_not_admin_filters>>

Handlers == <<cmd_ro_filters, cmd_ban_filters, cmd_warn_filters,
              cmd_ro_bot_not_admin_filters, cmd_ro_user_not_admin_filters>>

Matches(h, msg) == msg.command \in h.commands /\ h.filters \subseteq msg.flags

(* the dispatcher runs the first registered handler whose filters all hold *)
FirstMatch(msg) ==
    IF \E i \in 1..Len(Handlers) : Matches(Handlers[i], msg)
    THEN Handlers[CHOOSE i \in 1..Len(Handlers) :
                     /\ Matches(Handlers[i], msg)
                     /\ \A j \in 1..(i - 1) : ~Matches(Handlers[j], msg)].name
    ELSE "none"

(***************************************************************************)
(* Platform calls.  A call is accepted or rejected by the platform; the    *)
(* handler's except clauses decide what a rejection does.                  *)
(***************************************************************************)
(* restrict / kick: BadRequest, or an error that is no BadRequest *)
CallOutcomes == {"ok", "BadRequest", "OtherError"}

SendOutcomes == {"ok", "OtherError"}

DeleteOutcomes == {"ok", "MessageCantBeDeleted", "MessageToDeleteNotFound",
                   "OtherError"}

Ev(ev, what, result, duration, row) ==
    [ev |-> ev, what |-> what, result |-> result, duration |-> duration,
     row |-> row]

IdleTask == [pc |-> "idle", handler |-> "none", msg |-> NoMsg, text |-> <<>>,
             duration |-> <<>>, comment |-> <<>>, target_user |-> "none",
             trace |-> <<>>]

(***************************************************************************)
(* Karma.                                                                  *)
(***************************************************************************)
KUsers == {"u1", "u2", "u3"}

(* the users who send karma-change messages *)
Actors == {"u1", "u2"}

(* a username no account holds *)
FreeUsername == "ghost"

(* karma['user']: a platform user with its id, or one that carries only a
   username *)
TargetChoices ==
    [id : KUsers, username : {"same"}] \cup
    [id : {"none"}, username : KUsers \cup {FreeUsername}]

KarmaChanges == {1, 0 - 1}

(* the cooldown of the karma-change contract, in seconds *)
CooldownSeconds == 30

(* rate=29 *)
Rate_short == 30 - 1

(* @dp.throttled(to_fast_change_karma, rate=30) *)
Rate == 30

MaxClock == 30

KarmaBase == 0

KarmaFloor == 0 - 1

IdleKTask == [pc |-> "idle", actor |-> "none", tg |-> [id |-> "none",
              username |-> "none"], how_change |-> 0, arrived |-> 0,
              target_user |-> "none", err |-> <<>>, trace |-> <<>>]

KEv(ev, what, result, value) ==
    [ev |-> ev, what |-> what, result |-> result, value |-> value]

(* no log file is being split *)
NoSplit == [pc |-> "idle", file |-> <<>>, position |-> 0,
            buffer_lines |-> <<>>, rez |-> <<>>, truncated |-> FALSE,
            sent |-> <<>>]

Init ==
    /\ task = [t \in Tasks |-> IdleTask]
    /\ audit = <<>>
    /\ users = {}
    /\ ktask = [t \in Tasks |-> IdleKTask]
    /\ karma = <<>>
    /\ last_call = [u \in Actors |-> <<>>]
    /\ now = 0
    /\ applied = <<>>
    /\ split = NoSplit

(* a message arrives and the dispatcher picks its handler *)
Dispatch(t) ==
    /\ task[t].pc = "idle"
    /\ \E command \in Commands, flags \in SUBSET Flags :
          LET msg == [command |-> command, flags |-> flags,
                      from_user |-> Sender(t),
                      target |-> IF "has_target" \in flags THEN Target(t)
                                 ELSE "none"]
              h == FirstMatch(msg)
          IN  task' = [task EXCEPT ![t] =
                          [@ EXCEPT !.msg = msg, !.handler = h,
                                    !.pc = IF h = "none" THEN "unhandled"
                                           ELSE "start"]]
    /\ UNCHANGED <<split, audit, users, ktask, karma, last_call, now, applied>>

(* the end of a handler after a send or a delete: an error no except clause
   names leaves the handler as an exception *)
after_send(result) == IF result = "ok" THEN "done" ELSE "raised"

(* TimedeltaParseError not caught *)
parse_failed_ignored(d) == FALSE

(* get_duration's outcome as cmd_ro and cmd_ban treat it *)
parse_failed(d) == ~d.ok

(* cmd_ro, cmd_ban: lines 77-82, up to the await of the platform call *)
ModStart(t, handler) ==
    /\ task[t].pc = "start"
    /\ task[t].handler = handler
    /\ \E args \in ArgChoices :
       LET text == Text(task[t].msg.command, args)
           d == get_duration(text)
       IN  IF parse_failed(d)
           THEN /\ \E r \in SendOutcomes :
                      task' = [task EXCEPT ![t] =
                          [@ EXCEPT !.text = text,
                                    !.trace = Append(@, Ev("reply", "parse_error",
                                                          r, <<>>, 0)),
                                    !.pc = after_send(r)]]
                /\ UNCHANGED <<split, audit, users, ktask, karma, last_call, now, applied>>
           ELSE /\ task' = [task EXCEPT ![t] =
                       [@ EXCEPT !.text = text,
                                 !.duration = <<d.duration>>,
                                 !.comment = d.comment,
                                 !.target_user = task[t].msg.target,
                                 !.trace = Append(@, Ev("resolve", "", "ok",
                                                        <<>>, 0)),
                                 !.pc = "call"]]
                /\ users' = users \cup {task[t].msg.target}
                /\ UNCHANGED <<split, audit, ktask, karma, last_call, now, applied>>

(* the except BadRequest clause without its return *)
after_platform_call_no_return(result) ==
    CASE result = "ok" -> "audit"
      [] result = "BadRequest" -> "audit"
      [] OTHER -> "raised"

(* where the try/except/else around the platform call continues *)
after_platform_call(result) ==
    CASE result = "ok" -> "audit"
      [] result = "BadRequest" -> "done"
      [] OTHER -> "raised"

(* message.chat.restrict / message.chat.kick *)
PlatformCall(t, handler, primitive) ==
    /\ task[t].pc = "call"
    /\ task[t].handler = handler
    /\ \E r \in CallOutcomes :
          task' = [task EXCEPT ![t] =
              [@ EXCEPT !.trace = Append(@, Ev(primitive, "", r,
                                               task[t].duration, 0)),
                        !.pc = after_platform_call(r)]]
    /\ UNCHANGED <<split, audit, users, ktask, karma, last_call, now, applied>>

(* moderator=target_user, user=user *)
moderator_event_swapped(moderator, user, chat, type_restriction, duration, comment) ==
    [moderator |-> user, user |-> moderator, chat |-> chat,
     type_restriction |-> type_restriction, duration |-> duration,
     comment |-> comment]

(* the row of save_new_action(moderator=user, user=target_user, chat=chat,
   type_restriction=..., duration=duration, comment=comment) *)
moderator_event(moderator, user, chat, type_restriction, duration, comment) ==
    [moderator |-> moderator, user |-> user, chat |-> chat,
     type_restriction |-> type_restriction, duration |-> duration,
     comment |-> comment]

(* ModeratorEvent.save_new_action *)
save_new_action(t, type_restriction) ==
    /\ task[t].pc = "audit"
    /\ audit' = Append(audit,
                       moderator_event(task[t].msg.from_user,
                                       task[t].target_user, TheChat,
                                       type_restriction, task[t].duration,
                                       task[t].comment))
    /\ task' = [task EXCEPT ![t] =
           [@ EXCEPT !.trace = Append(@, Ev("audit", type_restriction, "ok",
                                            task[t].duration, Len(audit) + 1)),
                     !.pc = "reply"]]
    /\ UNCHANGED <<split, users, ktask, karma, last_call, now, applied>>

(* the success reply of a handler *)
Reply(t, what) ==
    /\ task[t].pc = "reply"
    /\ \E r \in SendOutcomes :
          task' = [task EXCEPT ![t] =
              [@ EXCEPT !.trace = Append(@, Ev("reply", what, r,
                                               task[t].duration, 0)),
                        !.pc = after_send(r)]]
    /\ UNCHANGED <<split, audit, users, ktask, karma, last_call, now, applied>>

cmd_ro(t) ==
    \/ ModStart(t, "cmd_ro")
    \/ PlatformCall(t, "cmd_ro", "restrict")
    \/ task[t].handler = "cmd_ro" /\ save_new_action(t, "ro")
    \/ task[t].handler = "cmd_ro" /\ Reply(t, "ro_ok")

(* duration <= FOREVER_DURATION in place of < *)
ban_reply_inclusive(duration) ==
    IF duration <= FOREVER_DURATION THEN "ban_ok_can_return" ELSE "ban_ok"

(* lines 149-153: the reply text of a ban, with or without the clause that
   the user can return after the duration *)
ban_reply(duration) ==
    IF duration < FOREVER_DURATION THEN "ban_ok_can_return" ELSE "ban_ok"

cmd_ban(t) ==
    \/ ModStart(t, "cmd_ban")
    \/ PlatformCall(t, "cmd_ban", "kick")
    \/ task[t].handler = "cmd_ban" /\ save_new_action(t, "ban")
    \/ task[t].handler = "cmd_ban" /\ Reply(t, ban_reply(task[t].duration[1]))

(* the comment cut to its first word *)
warn_comment_first_word(text) ==
    LET args == SplitMax(text, 1)
    IN  IF Len(args) = 1 THEN <<>> ELSE <<args[2][1]>>

(* cmd_warn: the comment is all the text after the command keyword *)
warn_comment(text) ==
    LET args == SplitMax(text, 1)
    IN  IF Len(args) = 1 THEN <<>> ELSE args[2]

cmd_warn(t) ==
    \/ /\ task[t].pc = "start"
       /\ task[t].handler = "cmd_warn"
       /\ \E args \in ArgChoices :
          LET text == Text(task[t].msg.command, args)
          IN  task' = [task EXCEPT ![t] =
              [@ EXCEPT !.text = text,
                        !.comment = warn_comment(text),
                        !.target_user = task[t].msg.target,
                        !.trace = Append(@, Ev("resolve", "", "ok", <<>>, 0)),
                        !.pc = "audit"]]
       /\ users' = users \cup {task[t].msg.target}
       /\ UNCHANGED <<split, audit, ktask, karma, last_call, now, applied>>
    \/ task[t].handler = "cmd_warn" /\ save_new_action(t, "warn")
    \/ task[t].handler = "cmd_warn" /\ Reply(t, "warn_ok")

(* the first cmd_ro_bot_not_admin *)
cmd_ro_bot_not_admin(t) ==
    /\ task[t].pc = "start"
    /\ task[t].handler = "cmd_ro_bot_not_admin"
    /\ \E r \in SendOutcomes :
          task' = [task EXCEPT ![t] =
              [@ EXCEPT !.trace = Append(@, Ev("reply", "grant_rights", r,
                                               <<>>, 0)),
                        !.pc = after_send(r)]]
    /\ UNCHANGED <<split, audit, users, ktask, karma, last_call, now, applied>>

(* with suppress(MessageCantBeDeleted, MessageToDeleteNotFound) *)
after_delete(result) ==
    IF result \in {"ok", "MessageCantBeDeleted", "MessageToDeleteNotFound"}
    THEN "done" ELSE "raised"

(* the second cmd_ro_bot_not_admin *)
cmd_ro_user_not_admin(t) ==
    /\ task[t].pc = "start"
    /\ task[t].handler = "cmd_ro_user_not_admin"
    /\ \E r \in DeleteOutcomes :
          task' = [task EXCEPT ![t] =
              [@ EXCEPT !.trace = Append(@, Ev("delete", "", r, <<>>, 0)),
                        !.pc = after_delete(r)]]
    /\ UNCHANGED <<split, audit, users, ktask, karma, last_call, now, applied>>

Next ==
    \E t \in Tasks :
        \/ Dispatch(t)
        \/ cmd_ro(t)
        \/ cmd_ban(t)
        \/ cmd_warn(t)
        \/ cmd_ro_bot_not_admin(t)
        \/ cmd_ro_user_not_admin(t)

Spec == Init /\ [][Next]_vars

(***************************************************************************)
(* Properties of the moderation pipeline (specification Spec).             *)
(***************************************************************************)
Finished(t) == task[t].pc \in {"done", "raised", "unhandled"}

HasEv(tr, evs) == \E i \in DOMAIN tr : tr[i].ev \in evs

HasReply(tr, whats) ==
    \E i \in DOMAIN tr : tr[i].ev = "reply" /\ tr[i].what \in whats

SuccessReplies == {"ro_ok", "ban_ok", "ban_ok_can_return", "warn_ok"}

PlatformCalls == {"restrict", "kick"}

FailedCall(tr) ==
    \E i \in DOMAIN tr : tr[i].ev \in PlatformCalls /\ tr[i].result # "ok"

SucceededCalls(tr) ==
    Cardinality({i \in DOMAIN tr :
                    tr[i].ev \in PlatformCalls /\ tr[i].result = "ok"})

RECURSIVE SumOver(_, _)
SumOver(S, tr) ==
    IF S = {} THEN 0
    ELSE LET t == CHOOSE x \in S : TRUE
         IN  SucceededCalls(tr[t].trace) + SumOver(S \ {t}, tr)

MuteBanRows ==
    Cardinality({i \in DOMAIN audit :
                    audit[i].type_restriction \in {"ro", "ban"}})

(* C1: a mute or ban whose platform restrict/kick call fails writes no
   audit record and sends no success reply, and at every moment there are
   at most as many "ro"/"ban" audit records as platform calls that
   succeeded. *)
C1_ModerationAtomicity ==
    /\ \A t \in Tasks :
          FailedCall(task[t].trace) =>
              /\ ~HasEv(task[t].trace, {"audit"})
              /\ ~HasReply(task[t].trace, SuccessReplies)
              /\ task[t].pc \in {"done", "raised"}
    /\ MuteBanRows <= SumOver(Tasks, task)

C1_Witness ==
    \E t1, t2 \in Tasks :
        /\ task[t1].pc = "done"
        /\ \E i \in DOMAIN task[t1].trace :
              /\ task[t1].trace[i].ev = "restrict"
              /\ task[t1].trace[i].result = "BadRequest"
        /\ task[t2].pc = "raised"
        /\ \E i \in DOMAIN task[t2].trace :
              /\ task[t2].trace[i].ev = "kick"
              /\ task[t2].trace[i].result = "OtherError"

UserLacksCapability(t) ==
    /\ task[t].pc # "idle"
    /\ task[t].msg.command \in {"ro", "mute", "ban", "warn"}
    /\ "user_can_restrict_members" \notin task[t].msg.flags

NothingButDelete(t) ==
    /\ ~HasEv(task[t].trace, {"reply", "restrict", "kick", "audit", "resolve"})
    /\ \A i \in DOMAIN audit : audit[i].moderator # Sender(t)

(* C7 as stated: whenever an actor without the restrict-members capability
   sends !ro, !mute, !ban or !warn, the deletion of the triggering message
   is attempted, and there is no reply, no platform call and no audit
   record. *)
C7_Original ==
    \A t \in Tasks :
        (UserLacksCapability(t) /\ Finished(t)) =>
            /\ HasEv(task[t].trace, {"delete"})
            /\ NothingButDelete(t)

(* C7, amended: such a command never gets a reply, a platform call or an
   audit record; when the bot can delete messages the second
   cmd_ro_bot_not_admin runs, attempts exactly one deletion and swallows
   MessageCantBeDeleted and MessageToDeleteNotFound; when the bot cannot
   delete messages no handler of the module runs and no deletion is
   attempted. *)
C7_UserLacksCapability ==
    \A t \in Tasks :
        UserLacksCapability(t) =>
            /\ NothingButDelete(t)
            /\ IF "bot_can_delete_messages" \in task[t].msg.flags
               THEN /\ task[t].handler = "cmd_ro_user_not_admin"
                    /\ Finished(t) =>
                          /\ Len(task[t].trace) = 1
                          /\ task[t].trace[1].ev = "delete"
                          /\ task[t].trace[1].result
                                \in {"ok", "MessageCantBeDeleted",
                                     "MessageToDeleteNotFound"}
                                => task[t].pc = "done"
               ELSE /\ task[t].handler = "none"
                    /\ task[t].trace = <<>>

C7_Witness ==
    \E t1, t2 \in Tasks :
        /\ UserLacksCapability(t1) /\ task[t1].pc = "done"
        /\ task[t1].msg.command = "mute"
        /\ HasEv(task[t1].trace, {"delete"})
        /\ task[t1].trace[1].result = "MessageCantBeDeleted"
        /\ UserLacksCapability(t2) /\ task[t2].pc = "unhandled"
        /\ task[t2].msg.command = "ban"

BotLacksCapability(t) ==
    /\ task[t].pc # "idle"
    /\ task[t].msg.command \in {"ro", "mute", "ban"}
    /\ {"has_target", "user_can_restrict_members"} \subseteq task[t].msg.flags
    /\ "bot_can_restrict_members" \notin task[t].msg.flags

(* C8: a mute or ban command with a resolvable target from an actor who
   holds the restrict-members capability, while the bot lacks it, gets the
   "grant me rights" reply and nothing else: no platform call, no audit
   record, no deletion of the triggering message. *)
C8_BotLacksCapability ==
    \A t \in Tasks :
        BotLacksCapability(t) =>
            /\ task[t].handler = "cmd_ro_bot_not_admin"
            /\ ~HasEv(task[t].trace, {"restrict", "kick", "audit", "delete",
                                      "resolve"})
            /\ \A i \in DOMAIN task[t].trace :
                  task[t].trace[i].what = "grant_rights"
            /\ task[t].pc # "start" =>
                  /\ Finished(t)
                  /\ Len(task[t].trace) = 1
                  /\ task[t].trace[1].ev = "reply"

C8_Witness ==
    \E t \in Tasks :
        /\ BotLacksCapability(t)
        /\ task[t].msg.command = "ban"
        /\ "bot_can_delete_messages" \in task[t].msg.flags
        /\ task[t].pc = "done"
        /\ HasReply(task[t].trace, {"grant_rights"})

HandlerNames == {Handlers[i].name : i \in 1..Len(Handlers)}

(* C9 as stated: for every moderation command and every combination of
   filter outcomes exactly one registered handler fires, the first in
   registration order whose whole filter set holds. *)
C9_Original ==
    \A t \in Tasks :
        task[t].pc # "idle" =>
            /\ task[t].handler \in HandlerNames
            /\ \E i \in 1..Len(Handlers) :
                  /\ Handlers[i].name = task[t].handler
                  /\ Matches(Handlers[i], task[t].msg)
                  /\ \A j \in 1..(i - 1) : ~Matches(Handlers[j], task[t].msg)

(* the handler each moderation command reaches, by command and filter
   outcomes *)
ExpectedHandler(command, flags) ==
    LET full == {"has_target", "user_can_restrict_members"} \subseteq flags
        bot == "bot_can_restrict_members" \in flags
        del == "bot_can_delete_messages" \in flags
    IN  CASE command \in {"ro", "mute"} /\ full /\ bot -> "cmd_ro"
          [] command = "ban" /\ full /\ bot -> "cmd_ban"
          [] command \in {"w", "warn"} /\ full -> "cmd_warn"
          [] command \in {"ro", "mute", "ban"} /\ full /\ ~bot
                -> "cmd_ro_bot_not_admin"
          [] command \in {"ro", "mute", "ban", "warn"} /\ ~full /\ del
                -> "cmd_ro_user_not_admin"
          [] OTHER -> "none"

(* C9, amended: at most one registered handler fires per moderation
   command, and when one fires it is the first in registration order whose
   whole filter set holds; none fires when no filter set holds, which is
   when the actor lacks the restrict-members capability or there is no
   target and, besides, the bot cannot delete messages or the command is
   !w. *)
C9_Dispatch ==
    \A t \in Tasks :
        task[t].pc # "idle" =>
            /\ task[t].handler = ExpectedHandler(task[t].msg.command,
                                                 task[t].msg.flags)
            /\ task[t].handler # "none" =>
                  \E i \in 1..Len(Handlers) :
                      /\ Handlers[i].name = task[t].handler
                      /\ Matches(Handlers[i], task[t].msg)
                      /\ \A j \in 1..(i - 1) :
                            ~Matches(Handlers[j], task[t].msg)
            /\ task[t].handler = "none" =>
                  /\ \A i \in 1..Len(Handlers) :
                        ~Matches(Handlers[i], task[t].msg)
                  /\ task[t].pc = "unhandled"
                  /\ task[t].trace = <<>>
            /\ task[t].pc = "unhandled" =>
                  /\ ~({"has_target", "user_can_restrict_members"}
                          \subseteq task[t].msg.flags)
                  /\ \/ "bot_can_delete_messages" \notin task[t].msg.flags
                     \/ task[t].msg.command = "w"

C9_Witness ==
    \E t1, t2 \in Tasks :
        /\ task[t1].pc = "unhandled" /\ task[t1].msg.command = "w"
        /\ "bot_can_delete_messages" \in task[t1].msg.flags
        /\ task[t2].handler = "cmd_ro_bot_not_admin"
        /\ "bot_can_delete_messages" \in task[t2].msg.flags
        /\ task[t2].pc = "done"

ParseFailure(t) ==
    /\ task[t].handler \in {"cmd_ro", "cmd_ban"}
    /\ task[t].text # <<>>
    /\ Len(task[t].text) >= 2
    /\ parse_timedelta_from_text(task[t].text[2])[1] = "error"

(* C10: when the duration text of a mute or ban command cannot be parsed
   the handler replies with the parse error and stops: no local user is
   resolved or created, no platform call is made, no audit record is
   written and no success reply is sent. *)
C10_ParseFailure ==
    \A t \in Tasks :
        ParseFailure(t) =>
            /\ Len(task[t].trace) = 1
            /\ task[t].trace[1].ev = "reply"
            /\ task[t].trace[1].what = "parse_error"
            /\ task[t].pc = after_send(task[t].trace[1].result)
            /\ task[t].target_user = "none"
            /\ task[t].duration = <<>>
            /\ (\A u \in Tasks \ {t} : ~HasEv(task[u].trace, {"resolve"}))
                  => (users = {} /\ audit = <<>>)

C10_Witness ==
    \E t \in Tasks :
        /\ ParseFailure(t)
        /\ task[t].handler = "cmd_ban"
        /\ task[t].text[2] = Wbad
        /\ task[t].pc = "done"

(* C11 as stated: no handler invocation ends with a platform error
   propagated to its caller: every rejection of a restrict, kick, delete or
   send call is caught at the call site and the handler ends normally. *)
C11_PlatformErrorsNeverEscape ==
    \A t \in Tasks : task[t].pc # "raised"

(* the index of the platform call of a task that succeeded, 0 if none *)
OkCallAt(tr) ==
    IF \E i \in DOMAIN tr : tr[i].ev \in PlatformCalls /\ tr[i].result = "ok"
    THEN CHOOSE i \in DOMAIN tr :
             tr[i].ev \in PlatformCalls /\ tr[i].result = "ok"
    ELSE 0

AuditEvents(tr) == {i \in DOMAIN tr : tr[i].ev = "audit"}

RECURSIVE AuditEventsOver(_)
AuditEventsOver(S) ==
    IF S = {} THEN 0
    ELSE LET t == CHOOSE x \in S : TRUE
         IN  Cardinality(AuditEvents(task[t].trace)) + AuditEventsOver(S \ {t})

MuteBanOrdered(t) ==
    LET tr == task[t].trace
        i == OkCallAt(tr)
        kind == IF task[t].handler = "cmd_ro" THEN "ro" ELSE "ban"
        parsed == get_duration(task[t].text)
    IN  (task[t].handler \in {"cmd_ro", "cmd_ban"} /\ i # 0) =>
            /\ ~HasEv(SubSeq(tr, 1, i - 1), {"audit", "reply"})
            /\ tr[i].ev = (IF kind = "ro" THEN "restrict" ELSE "kick")
            /\ parsed.ok /\ tr[i].duration = <<parsed.duration>>
            /\ task[t].pc # "audit" =>
                  /\ Len(tr) >= i + 1
                  /\ tr[i + 1].ev = "audit"
                  /\ Cardinality(AuditEvents(tr)) = 1
                  /\ tr[i + 1].row \in DOMAIN audit
                  /\ audit[tr[i + 1].row] =
                        [moderator |-> task[t].msg.from_user,
                         user |-> task[t].msg.target,
                         chat |-> TheChat,
                         type_restriction |-> kind,
                         duration |-> <<parsed.duration>>,
                         comment |-> parsed.comment]
                  /\ task[t].pc # "reply" =>
                        /\ Len(tr) = i + 2
                        /\ tr[i + 2].ev = "reply"
                        /\ tr[i + 2].what \in SuccessReplies
            /\ task[t].pc = "audit" => Len(tr) = i

AuditLogShape ==
    /\ \A t \in Tasks : MuteBanOrdered(t)
    /\ Len(audit) = AuditEventsOver(Tasks)
    /\ \A t \in Tasks : Cardinality(AuditEvents(task[t].trace)) <= 1
    /\ \A t1, t2 \in Tasks :
          \A i \in AuditEvents(task[t1].trace), j \in AuditEvents(task[t2].trace) :
              task[t1].trace[i].row = task[t2].trace[j].row => t1 = t2

(* C12: a mute or ban whose platform call succeeds goes platform call ->
   exactly one audit record (the moderator, target, chat, kind and the
   duration and comment that were parsed and passed to the platform call)
   -> success reply; the audit log holds exactly one record per executed
   mute, ban or warn, it only grows, and no record in it is changed or
   removed. *)
C12_AuditOrderAndShape ==
    /\ []AuditLogShape
    /\ [][/\ Len(audit') >= Len(audit)
          /\ Len(audit') <= Len(audit) + 1
          /\ SubSeq(audit', 1, Len(audit)) = audit]_vars

C12_Witness ==
    \E t1, t2 \in Tasks :
        /\ task[t1].handler = "cmd_ro" /\ task[t1].pc = "done"
        /\ task[t1].text = Text("mute", <<W366d, Wspam, Wbot>>)
        /\ HasReply(task[t1].trace, {"ro_ok"})
        /\ task[t2].handler = "cmd_ban" /\ task[t2].pc = "done"
        /\ HasReply(task[t2].trace, {"ban_ok_can_return"})
        /\ Len(audit) = 2
        /\ audit[1].type_restriction = "ban"
        /\ audit[2].comment = <<Wspam, Wbot>>

WarnAudited(t) ==
    LET tr == task[t].trace
        rows == AuditEvents(tr)
    IN  /\ Cardinality(rows) = 1
        /\ \A i \in rows :
              /\ tr[i].row \in DOMAIN audit
              /\ audit[tr[i].row] =
                    [moderator |-> task[t].msg.from_user,
                     user |-> task[t].msg.target,
                     chat |-> TheChat,
                     type_restriction |-> "warn",
                     duration |-> <<>>,
                     comment |-> SubSeq(task[t].text, 2, Len(task[t].text))]
              /\ \A j \in DOMAIN tr : tr[j].ev = "reply" => j = i + 1

(* C13: a cmd_warn invocation makes no restrict or kick call, writes
   exactly one audit record of kind 'warn' with no duration and with the
   comment equal to all the text after the command keyword, and replies
   only after that; a warn command with a target from a user holding the
   restrict capability is handled by cmd_warn whether or not the bot holds
   the restrict capability. *)
C13_WarnAuditOnly ==
    \A t \in Tasks :
        /\ task[t].handler = "cmd_warn" =>
              /\ ~HasEv(task[t].trace, PlatformCalls)
              /\ task[t].pc \in {"start", "audit"} =>
                    ~HasEv(task[t].trace, {"audit", "reply"})
              /\ task[t].pc \in {"reply", "done", "raised"} => WarnAudited(t)
              /\ task[t].pc = "done" => HasReply(task[t].trace, {"warn_ok"})
        /\ (/\ task[t].pc # "idle"
            /\ task[t].msg.command \in {"w", "warn"}
            /\ {"has_target", "user_can_restrict_members"}
                   \subseteq task[t].msg.flags) =>
              task[t].handler = "cmd_warn"

C13_Witness ==
    \E t \in Tasks :
        /\ task[t].handler = "cmd_warn" /\ task[t].pc = "done"
        /\ "bot_can_restrict_members" \notin task[t].msg.flags
        /\ task[t].text = Text("w", <<W366d, Wspam, Wbot>>)
        /\ Len(audit) >= 1
        /\ audit[1].comment = <<W366d, Wspam, Wbot>>
        /\ audit[1].duration = <<>>

(* the part of a mute or ban invocation that reads the command text *)
ArgsRead(t) ==
    task[t].handler \in {"cmd_ro", "cmd_ban"} /\ task[t].text # <<>>

ParseErrorReplied(t) ==
    /\ Len(task[t].trace) = 1
    /\ task[t].trace[1].ev = "reply"
    /\ task[t].trace[1].what = "parse_error"
    /\ task[t].duration = <<>>

(* C16: get_duration takes the first word after the command keyword as the
   duration text and everything after it as the comment; with no word after
   the keyword the duration is one hour and the comment is empty, although
   the parser rejects the empty text (so it was not asked); with exactly
   one word the comment is empty. *)
C16_ArgumentSplitting ==
    \A t \in Tasks : ArgsRead(t) =>
        LET rest == Tail(task[t].text)
        IN  /\ rest = <<>> =>
                  /\ task[t].duration = <<60 * 60>>
                  /\ task[t].comment = <<>>
                  /\ parse_timedelta_from_text(<<>>)[1] = "error"
                  /\ ~ParseErrorReplied(t)
            /\ rest # <<>> =>
                  LET p == parse_timedelta_from_text(rest[1])
                  IN  /\ p[1] = "ok" =>
                            /\ task[t].duration = <<p[2]>>
                            /\ task[t].comment = Tail(rest)
                      /\ p[1] = "error" => ParseErrorReplied(t)
            /\ Len(rest) = 1 => task[t].comment = <<>>

C16_Witness ==
    \E t1, t2 \in Tasks :
        /\ ArgsRead(t1) /\ Len(task[t1].text) = 1
        /\ task[t1].duration = <<3600>>
        /\ ArgsRead(t2) /\ task[t2].text = Text("ban", <<W366d, Wspam, Wbot>>)
        /\ task[t2].comment = <<Wspam, Wbot>>
        /\ task[t2].duration = <<366 * 86400>>

BanReplies == {"ban_ok", "ban_ok_can_return"}

(* C17: the success reply of cmd_ban has the 'can return' clause exactly
   when the parsed duration is strictly less than 366 days, and the
   duration handed to the kick call is the parsed one. *)
C17_BanReplyClause ==
    \A t \in Tasks : task[t].handler = "cmd_ban" =>
        LET tr == task[t].trace
            parsed == get_duration(task[t].text)
        IN  \A i \in DOMAIN tr :
                /\ tr[i].ev = "kick" =>
                      parsed.ok /\ tr[i].duration = <<parsed.duration>>
                /\ (tr[i].ev = "reply" /\ tr[i].what \in BanReplies) =>
                      /\ parsed.ok
                      /\ tr[i].what = "ban_ok_can_return"
                            <=> parsed.duration < 366 * 24 * 60 * 60

C17_Witness ==
    \E t1, t2 \in Tasks :
        /\ task[t1].handler = "cmd_ban"
        /\ HasReply(task[t1].trace, {"ban_ok"})
        /\ task[t1].duration = <<366 * 24 * 60 * 60>>
        /\ task[t2].handler = "cmd_ban"
        /\ HasReply(task[t2].trace, {"ban_ok_can_return"})
        /\ task[t2].duration = <<30 * 60>>

(* C19 as stated: the silent-delete fallback fires only for messages whose
   sender lacks the restrict-members capability. *)
C19_SilentDeleteOnlyWithoutCapability ==
    \A t \in Tasks :
        task[t].handler = "cmd_ro_user_not_admin" =>
            "user_can_restrict_members" \notin task[t].msg.flags

(***************************************************************************)
(* The karma-change pipeline.                                              *)
(***************************************************************************)
can_change_karma(target_user, user) == user # target_user

(* the throttle gate: an invocation passes when the actor has none before
   it or the last one is at least rate seconds old *)
throttle_passes(last, time, rate) == last = <<>> \/ time - last[1] >= rate

(* the gate records every invocation as the actor's last one *)
throttle_update(last, actor, time) == [last EXCEPT ![actor] = <<time>>]

(* karma_change registered without the throttled decorator *)
throttled_missing(passes) == "resolve"

(* @dp.throttled(to_fast_change_karma, ...) around karma_change: the body
   runs when the gate passes, to_fast_change_karma when it does not *)
throttled(passes) == IF passes THEN "resolve" ELSE "throttled"

(* a karma-change message arrives and goes through the gate *)
KarmaArrive(t) ==
    /\ ktask[t].pc = "idle"
    /\ \E actor \in Actors, tg \in TargetChoices, how_change \in KarmaChanges :
          /\ ktask' = [ktask EXCEPT ![t] =
                [@ EXCEPT !.actor = actor, !.tg = tg,
                          !.how_change = how_change, !.arrived = now,
                          !.pc = throttled(throttle_passes(last_call[actor],
                                                           now, Rate))]]
          /\ last_call' = throttle_update(last_call, actor, now)
    /\ UNCHANGED <<split, karma, now, applied, task, audit, users>>

to_fast_change_karma(t) ==
    /\ ktask[t].pc = "throttled"
    /\ \E r \in SendOutcomes :
          ktask' = [ktask EXCEPT ![t] =
              [@ EXCEPT !.trace = Append(@, KEv("reply", "too_fast", r, 0)),
                        !.pc = after_send(r)]]
    /\ UNCHANGED <<split, karma, last_call, now, applied, task, audit, users>>

(* User.get_or_create_from_tg_user raises UserWithoutUserIdError for a user
   that carries no id *)
has_user_id(tg) == tg.id # "none"

(* karma_change lines 30-32 and 40-42 *)
KarmaResolve(t) ==
    /\ ktask[t].pc = "resolve"
    /\ IF has_user_id(ktask[t].tg)
       THEN ktask' = [ktask EXCEPT ![t] =
               [@ EXCEPT !.target_user = ktask[t].tg.id,
                         !.trace = Append(@, KEv("resolve", "by_id", "ok", 0)),
                         !.pc = IF can_change_karma(ktask[t].tg.id, ktask[t].actor)
                                THEN "change" ELSE "done"]]
       ELSE ktask' = [ktask EXCEPT ![t] = [@ EXCEPT !.pc = "lookup"]]
    /\ UNCHANGED <<split, karma, last_call, now, applied, task, audit, users>>

(* UserGetter.get_user_by_username: the user holding the username, or
   UsernameNotOccupied / IndexError *)
get_user_by_username(username) ==
    IF username \in KUsers THEN <<username>> ELSE <<>>

(* except (UsernameNotOccupied, IndexError) without its raise *)
after_lookup_swallowed(found) == "change"

(* where karma_change continues after the lookup by username: on to the
   change, or out of the handler by the raise of line 39 *)
after_lookup(found) == IF found # <<>> THEN "change" ELSE "raised"

(* karma_change lines 33-39 *)
KarmaLookup(t) ==
    /\ ktask[t].pc = "lookup"
    /\ LET found == get_user_by_username(ktask[t].tg.username)
       IN  IF found # <<>>
           THEN ktask' = [ktask EXCEPT ![t] =
                   [@ EXCEPT !.target_user = found[1],
                             !.trace = Append(@, KEv("resolve", "by_username",
                                                     "ok", 0)),
                             !.pc = after_lookup(found)]]
           ELSE ktask' = [ktask EXCEPT ![t] =
                   [@ EXCEPT !.err = <<[error |-> "UserWithoutUserIdError",
                                        user_id |-> ktask[t].actor,
                                        chat_id |-> TheChat]>>,
                             !.pc = after_lookup(found)]]
    /\ UNCHANGED <<split, karma, last_call, now, applied, task, audit, users>>

KarmaOf(k, key) == IF key \in DOMAIN k THEN k[key] ELSE KarmaBase

SetKarma(k, key, value) ==
    [x \in DOMAIN k \cup {key} |-> IF x = key THEN value ELSE k[x]]

(* UserKarma.change_or_create on the rows k: the rows after it, or
   SubZeroKarma and the rows unchanged *)
change_or_create(k, key, how_change) ==
    IF KarmaOf(k, key) + how_change < KarmaFloor
    THEN [ok |-> FALSE, rows |-> k]
    ELSE [ok |-> TRUE, rows |-> SetKarma(k, key, KarmaOf(k, key) + how_change)]

(* SubZeroKarma not caught apart *)
after_change_ignored(ok) == "reply"

(* target_user and user_changed swapped *)
change_key_swapped(target_user, user, chat) == <<user, chat>>

(* the row change_or_create is called for: target_user=target_user,
   chat=chat *)
change_key(target_user, user, chat) == <<target_user, chat>>

(* what karma_change does with SubZeroKarma *)
after_change(ok) == IF ok THEN "reply" ELSE "subzero"

(* karma_change lines 44-50 *)
KarmaChange(t) ==
    /\ ktask[t].pc = "change"
    /\ LET key == change_key(ktask[t].target_user, ktask[t].actor, TheChat)
           c == change_or_create(karma, key, ktask[t].how_change)
       IN  /\ karma' = c.rows
           /\ applied' = Append(applied, [key |-> <<ktask[t].target_user,
                                                    TheChat>>,
                                          how_change |-> ktask[t].how_change,
                                          by |-> t])
           /\ ktask' = [ktask EXCEPT ![t] =
                 [@ EXCEPT !.trace = Append(@, KEv("change_or_create",
                                                   IF c.ok THEN "ok"
                                                   ELSE "SubZeroKarma", "ok",
                                                   KarmaOf(c.rows, key))),
                           !.pc = after_change(c.ok)]]
    /\ UNCHANGED <<split, last_call, now, task, audit, users>>

(* karma_change lines 51-53 and 55-65 *)
KarmaReply(t) ==
    /\ ktask[t].pc \in {"reply", "subzero"}
    /\ \E r \in SendOutcomes :
          ktask' = [ktask EXCEPT ![t] =
              [@ EXCEPT !.trace = Append(@, KEv("reply",
                                               IF ktask[t].pc = "reply"
                                               THEN "changed" ELSE "too_little",
                                               r, 0)),
                        !.pc = after_send(r)]]
    /\ UNCHANGED <<split, karma, last_call, now, applied, task, audit, users>>

karma_change(t) ==
    \/ KarmaResolve(t)
    \/ KarmaLookup(t)
    \/ KarmaChange(t)
    \/ KarmaReply(t)

(* time passes *)
Tick ==
    /\ \E d \in {CooldownSeconds - 1, CooldownSeconds} :
          /\ now + d <= MaxClock
          /\ now' = now + d
    /\ UNCHANGED <<split, ktask, karma, last_call, applied, task, audit, users>>

KarmaNext ==
    \/ \E t \in Tasks :
          \/ KarmaArrive(t)
          \/ to_fast_change_karma(t)
          \/ karma_change(t)
    \/ Tick

KarmaSpec == Init /\ [][KarmaNext]_vars
(***************************************************************************)
(* Properties of the karma-change pipeline (specification KarmaSpec).      *)
(***************************************************************************)
KFinished(t) == ktask[t].pc \in {"done", "raised"}

(* the gate suppressed the invocation / let it into the body *)
Throttled(t) ==
    \/ ktask[t].pc = "throttled"
    \/ ktask[t].trace # <<>> /\ ktask[t].trace[1].what = "too_fast"

Passed(t) == ktask[t].pc # "idle" /\ ~Throttled(t)

ChangedBy(t) == \E i \in DOMAIN applied : applied[i].by = t

(* C2 as stated: whenever the resolved target of a karma-change message is
   its sender, by whichever way the target was resolved,
   UserKarma.change_or_create is not called and no reply is sent. *)
C2_SelfKarmaRejected ==
    \A t \in Tasks :
        (ktask[t].target_user # "none"
            /\ ktask[t].target_user = ktask[t].actor) =>
                /\ ~HasEv(ktask[t].trace, {"change_or_create", "reply"})
                /\ ~ChangedBy(t)

SuppressedBody(t) ==
    /\ ~HasEv(ktask[t].trace, {"resolve", "change_or_create"})
    /\ ~ChangedBy(t)
    /\ ktask[t].target_user = "none"
    /\ \A i \in DOMAIN ktask[t].trace : ktask[t].trace[i].what = "too_fast"
    /\ KFinished(t) => Len(ktask[t].trace) = 1

(* C3: of two karma-change invocations by one actor, the second one does
   not run the karma_change body and gets the "too frequent" reply when it
   arrives less than 30 seconds after the first, and both run the body
   when it arrives 30 seconds or more after the first. *)
C3_RateLimitSequential ==
    \A t1, t2 \in Tasks :
        (/\ t1 # t2
         /\ ktask[t1].pc # "idle" /\ ktask[t2].pc # "idle"
         /\ ktask[t1].actor = ktask[t2].actor
         /\ ktask[t1].arrived <= ktask[t2].arrived) =>
            LET gap == ktask[t2].arrived - ktask[t1].arrived
            IN  /\ (0 < gap /\ gap < CooldownSeconds) =>
                      /\ Passed(t1)
                      /\ Throttled(t2) /\ SuppressedBody(t2)
                /\ gap = 0 =>
                      \/ Passed(t1) /\ Throttled(t2) /\ SuppressedBody(t2)
                      \/ Passed(t2) /\ Throttled(t1) /\ SuppressedBody(t1)
                /\ gap >= CooldownSeconds => Passed(t1) /\ Passed(t2)

C3_Witness ==
    \E t1, t2 \in Tasks :
        /\ ktask[t1].actor = ktask[t2].actor
        /\ ktask[t1].pc = "done" /\ HasReply(ktask[t1].trace, {"changed"})
        /\ ktask[t2].arrived - ktask[t1].arrived = CooldownSeconds - 1
        /\ ktask[t2].pc = "done" /\ HasReply(ktask[t2].trace, {"too_fast"})

(* C4: of two handler tasks in flight for karma-change messages of one
   actor that arrived within one cooldown window, at most one passes the
   throttle gate and reaches the karma_change body. *)
C4_RateLimitInterleaved ==
    \A t1, t2 \in Tasks :
        (/\ t1 # t2
         /\ ktask[t1].pc # "idle" /\ ktask[t2].pc # "idle"
         /\ ktask[t1].actor = ktask[t2].actor
         /\ ktask[t2].arrived - ktask[t1].arrived < CooldownSeconds
         /\ ktask[t1].arrived - ktask[t2].arrived < CooldownSeconds) =>
            ~(Passed(t1) /\ Passed(t2))

C4_Witness ==
    \E t1, t2 \in Tasks :
        /\ ktask[t1].actor = ktask[t2].actor
        /\ ktask[t1].arrived = ktask[t2].arrived
        /\ ktask[t1].pc = "change"
        /\ ktask[t2].pc = "throttled"

Keys == KUsers \X {TheChat}

(* the karma of a row after the changes of log to it, run one after the
   other from the base value *)
RECURSIVE Replay(_, _)
Replay(log, key) ==
    IF log = <<>> THEN KarmaBase
    ELSE LET before == Replay(SubSeq(log, 1, Len(log) - 1), key)
             last == log[Len(log)]
         IN  IF last.key # key THEN before
             ELSE IF before + last.how_change < KarmaFloor THEN before
             ELSE before + last.how_change

(* C5: however karma_change tasks interleave, the stored karma of every
   (target, chat) row is the one obtained by running the changes made to
   that row, and only those, one after the other. *)
C5_NoLostUpdate ==
    \A key \in Keys : KarmaOf(karma, key) = Replay(applied, key)

C5_Witness ==
    \E t1, t2 \in Tasks :
        /\ ktask[t1].actor # ktask[t2].actor
        /\ ktask[t1].target_user = ktask[t2].target_user
        /\ ktask[t1].target_user \notin {ktask[t1].actor, ktask[t2].actor}
        /\ ktask[t1].pc = "done" /\ ktask[t2].pc = "done"
        /\ HasReply(ktask[t1].trace, {"changed"})
        /\ HasReply(ktask[t2].trace, {"changed"})
        /\ KarmaOf(karma, <<ktask[t1].target_user, TheChat>>) = KarmaBase + 2

SubZeroAt(t, i) ==
    /\ i \in DOMAIN ktask[t].trace
    /\ ktask[t].trace[i].ev = "change_or_create"
    /\ ktask[t].trace[i].what = "SubZeroKarma"

KarmaFloorKept ==
    /\ \A key \in DOMAIN karma : karma[key] >= KarmaFloor
    /\ \A t \in Tasks : \A i \in DOMAIN ktask[t].trace :
          SubZeroAt(t, i) =>
              /\ ktask[t].how_change < 0
              /\ ktask[t].trace[i].value + ktask[t].how_change < KarmaFloor
              /\ ~HasReply(ktask[t].trace, {"changed"})
              /\ ktask[t].pc \in {"subzero", "done", "raised"}
              /\ ktask[t].pc # "subzero" =>
                    /\ Len(ktask[t].trace) = i + 1
                    /\ ktask[t].trace[i + 1].ev = "reply"
                    /\ ktask[t].trace[i + 1].what = "too_little"

(* C6: the stored karma of every row is never below the floor; a decrement
   that would cross it fails with SubZeroKarma and changes no stored
   karma, and the handler then sends the "too little karma" reply and no
   success reply. *)
C6_KarmaFloor ==
    /\ []KarmaFloorKept
    /\ [][\A t \in Tasks :
            (ktask[t].pc = "change" /\ ktask'[t].pc # "change") =>
                LET key == <<ktask[t].target_user, TheChat>>
                    crosses == KarmaOf(karma, key) + ktask[t].how_change
                                  < KarmaFloor
                IN  IF crosses
                    THEN karma' = karma /\ ktask'[t].pc = "subzero"
                    ELSE ktask'[t].pc = "reply"]_vars

C6_Witness ==
    \E t1, t2 \in Tasks :
        /\ ktask[t1].pc = "done" /\ SubZeroAt(t1, Len(ktask[t1].trace) - 1)
        /\ HasReply(ktask[t1].trace, {"too_little"})
        /\ ktask[t2].pc = "done" /\ HasReply(ktask[t2].trace, {"changed"})
        /\ ktask[t2].target_user = ktask[t1].target_user
        /\ ktask[t2].how_change < 0

(* the target carries no platform id / no user holds its username *)
WithoutUserId(t) == Passed(t) /\ ktask[t].tg.id = "none"

UsernameFree(t) == ktask[t].tg.username \notin KUsers

LookedUp(t) == WithoutUserId(t) /\ ktask[t].pc \notin {"resolve", "lookup"}

(* C18: a karma target without a platform id whose username no user holds
   ends karma_change with the original error re-raised carrying the
   sender's id and the chat id, with no change_or_create call, no karma
   value changed by it and no reply; when a user holds the username, the
   change goes on with that user as the target. *)
C18_UnresolvableTarget ==
    \A t \in Tasks :
        /\ (WithoutUserId(t) /\ UsernameFree(t)) =>
              /\ ~\E i \in DOMAIN ktask[t].trace :
                     ktask[t].trace[i].ev \in {"change_or_create", "reply"}
              /\ ~ChangedBy(t)
              /\ ktask[t].target_user = "none"
              /\ LookedUp(t) =>
                    /\ ktask[t].pc = "raised"
                    /\ ktask[t].err = <<[error |-> "UserWithoutUserIdError",
                                         user_id |-> ktask[t].actor,
                                         chat_id |-> "c1"]>>
        /\ (LookedUp(t) /\ ~UsernameFree(t)) =>
              /\ ktask[t].err = <<>>
              /\ ktask[t].target_user = ktask[t].tg.username
              /\ ktask[t].pc # "change" =>
                    /\ ChangedBy(t)
                    /\ \E i \in DOMAIN applied :
                          /\ applied[i].by = t
                          /\ applied[i].key = <<ktask[t].tg.username, "c1">>

C18_Witness ==
    \E t1, t2 \in Tasks :
        /\ WithoutUserId(t1) /\ UsernameFree(t1) /\ ktask[t1].pc = "raised"
        /\ ktask[t1].err # <<>>
        /\ WithoutUserId(t2) /\ ktask[t2].tg.username = "u3"
        /\ ktask[t2].pc = "done" /\ ChangedBy(t2)

(***************************************************************************)
(* The info lookup, get_info_about_user.  It runs on the moderation tasks  *)
(* (task, users); a task is a message "!info" whose has_target filter      *)
(* holds or not, the target being any user, the sender included            *)
(* (can_be_same).  The handler's awaits are its steps: the collaborator    *)
(* calls that fetch the target and its info, the private send, the group   *)
(* reply of the except clause, and the delete of the finally clause.  pc   *)
(* "delete_raising" is the finally clause entered with an exception in     *)
(* flight, which goes on propagating when the clause ends.                 *)
(***************************************************************************)
PrivateSendOutcomes == {"ok", "Unauthorized", "OtherError"}

get_info_filters == [name |-> "get_info_about_user",
                     commands |-> {"info"},
                     filters |-> {"has_target"}]

InfoDispatch(t) ==
    /\ task[t].pc = "idle"
    /\ \E flags \in SUBSET {"has_target"}, target \in Users :
          LET msg == [command |-> "info", flags |-> flags,
                      from_user |-> Sender(t),
                      target |-> IF "has_target" \in flags THEN target
                                 ELSE "none"]
              h == IF Matches(get_info_filters, msg)
                   THEN get_info_filters.name ELSE "none"
          IN  task' = [task EXCEPT ![t] =
                          [@ EXCEPT !.msg = msg, !.handler = h,
                                    !.pc = IF h = "none" THEN "unhandled"
                                           ELSE "start"]]
    /\ UNCHANGED <<split, audit, users, ktask, karma, last_call, now, applied>>

(* lines 187-188: get_db_user_by_tg_user and get_user_info *)
InfoFetch(t) ==
    /\ task[t].pc = "start"
    /\ task' = [task EXCEPT ![t] =
           [@ EXCEPT !.target_user = task[t].msg.target,
                     !.trace = Append(@, Ev("resolve", "", "ok", <<>>, 0)),
                     !.pc = "send"]]
    /\ users' = users \cup {task[t].msg.target}
    /\ UNCHANGED <<split, audit, ktask, karma, last_call, now, applied>>

(* a try/except Unauthorized without the finally clause *)
after_private_send_no_finally(result) ==
    CASE result = "ok" -> "delete"
      [] result = "Unauthorized" -> "reply"
      [] OTHER -> "raised"

(* where the try statement continues after bot.send_message: the finally
   clause, by way of the except clause for Unauthorized *)
after_private_send(result) ==
    CASE result = "ok" -> "delete"
      [] result = "Unauthorized" -> "reply"
      [] OTHER -> "delete_raising"

(* lines 189-194: bot.send_message(message.from_user.id, ...) *)
InfoSend(t) ==
    /\ task[t].pc = "send"
    /\ \E r \in PrivateSendOutcomes :
          task' = [task EXCEPT ![t] =
              [@ EXCEPT !.trace = Append(@, Ev("send_message", "info", r,
                                               <<>>, 0)),
                        !.pc = after_private_send(r)]]
    /\ UNCHANGED <<split, audit, users, ktask, karma, last_call, now, applied>>

(* lines 195-196: message.reply inside except Unauthorized *)
InfoReply(t) ==
    /\ task[t].pc = "reply"
    /\ \E r \in SendOutcomes :
          task' = [task EXCEPT ![t] =
              [@ EXCEPT !.trace = Append(@, Ev("reply", "write_me_first", r,
                                               <<>>, 0)),
                        !.pc = IF r = "ok" THEN "delete"
                               ELSE "delete_raising"]]
    /\ UNCHANGED <<split, audit, users, ktask, karma, last_call, now, applied>>

(* lines 197-199: message.delete under suppress, inside finally *)
InfoDelete(t) ==
    /\ task[t].pc \in {"delete", "delete_raising"}
    /\ \E r \in DeleteOutcomes :
          task' = [task EXCEPT ![t] =
              [@ EXCEPT !.trace = Append(@, Ev("delete", "", r, <<>>, 0)),
                        !.pc = IF task[t].pc = "delete_raising" THEN "raised"
                               ELSE after_delete(r)]]
    /\ UNCHANGED <<split, audit, users, ktask, karma, last_call, now, applied>>

get_info_about_user(t) ==
    /\ task[t].handler = "get_info_about_user"
    /\ \/ InfoFetch(t)
       \/ InfoSend(t)
       \/ InfoReply(t)
       \/ InfoDelete(t)

InfoNext ==
    \E t \in Tasks :
        \/ InfoDispatch(t)
        \/ get_info_about_user(t)

(* the event loop resumes every handler whose awaited call has returned *)
InfoSpec ==
    Init /\ [][InfoNext]_vars /\ \A t \in Tasks : WF_vars(get_info_about_user(t))

InfoInvoked(t) ==
    task[t].handler = "get_info_about_user" /\ task[t].pc # "idle"

DeleteAttempted(t) == HasEv(task[t].trace, {"delete"})

InfoCleanupShape(t) ==
    LET tr == task[t].trace
    IN  InfoInvoked(t) =>
        /\ task[t].pc \in {"done", "raised"} => DeleteAttempted(t)
        /\ \A i \in DOMAIN tr :
              /\ tr[i].ev = "delete" => i = Len(tr)
              /\ (tr[i].ev = "send_message" /\ tr[i].result = "Unauthorized"
                  /\ DeleteAttempted(t)) =>
                    /\ tr[i + 1].ev = "reply"
                    /\ tr[i + 2].ev = "delete"
              /\ (/\ tr[i].ev = "delete"
                  /\ tr[i].result \in {"MessageCantBeDeleted",
                                       "MessageToDeleteNotFound"}
                  /\ \A j \in 1..(i - 1) :
                        tr[j].result \in {"ok", "Unauthorized"}) =>
                    task[t].pc = "done"

(* C14: every invocation of get_info_about_user eventually attempts to
   delete the triggering message, whatever the private send did; after an
   Unauthorized private send the group reply comes before the deletion;
   a deletion failing with MessageCantBeDeleted or MessageToDeleteNotFound
   does not make the handler fail. *)
C14_InfoCleanup ==
    /\ [](\A t \in Tasks : InfoCleanupShape(t))
    /\ \A t \in Tasks : InfoInvoked(t) ~> DeleteAttempted(t)

C14_Witness ==
    \E t1, t2 \in Tasks :
        /\ InfoInvoked(t1) /\ task[t1].pc = "done"
        /\ Len(task[t1].trace) = 4
        /\ task[t1].trace[2].result = "Unauthorized"
        /\ task[t1].trace[3].ev = "reply"
        /\ task[t1].trace[4].result = "MessageCantBeDeleted"
        /\ InfoInvoked(t2) /\ task[t2].pc = "raised"
        /\ task[t2].trace[2].result = "OtherError"
        /\ DeleteAttempted(t2)

(***************************************************************************)
(* The superuser router.  It runs on the moderation tasks; a task is a     *)
(* message from any user with one of the router's commands or another      *)
(* one.  The router's filter is_superuser is evaluated before the          *)
(* handlers' Command filters; a message no handler of this router takes    *)
(* goes on to the next router and is "unhandled" here.                     *)
(***************************************************************************)
(* bot_config.superusers *)
Superusers == {"u1", "u2"}

SuperCommands == {"exception", "get_out", "dump", "info"}

(* what is_superuser would be if it let everybody in *)
is_superuser_anyone(message, superusers) == TRUE

is_superuser(message, superusers) == message.from_user \in superusers

(* router.message.register: handler and its Command filter, in order *)
SuperHandlers ==
    <<[name |-> "exception", commands |-> {"exception"}],
      [name |-> "leave_chat", commands |-> {"get_out"}],
      [name |-> "get_dump", commands |-> {"dump"}]>>

setup_superuser(msg) ==
    IF /\ is_superuser(msg, Superusers)
       /\ \E i \in DOMAIN SuperHandlers :
              msg.command \in SuperHandlers[i].commands
    THEN SuperHandlers[CHOOSE i \in DOMAIN SuperHandlers :
             /\ msg.command \in SuperHandlers[i].commands
             /\ \A j \in 1..(i - 1) :
                    msg.command \notin SuperHandlers[j].commands].name
    ELSE "none"

SuperDispatch(t) ==
    /\ task[t].pc = "idle"
    /\ \E command \in SuperCommands, from_user \in KUsers :
          LET msg == [command |-> command, flags |-> {},
                      from_user |-> from_user, target |-> "none"]
              h == setup_superuser(msg)
          IN  task' = [task EXCEPT ![t] =
                          [@ EXCEPT !.msg = msg, !.handler = h,
                                    !.pc = IF h = "none" THEN "unhandled"
                                           ELSE "start"]]
    /\ UNCHANGED <<split, audit, users, ktask, karma, last_call, now, applied>>

(* raise RuntimeError(message.text) *)
exception(t) ==
    /\ task[t].pc = "start"
    /\ task[t].handler = "exception"
    /\ task' = [task EXCEPT ![t] =
           [@ EXCEPT !.trace = Append(@, Ev("raise", "RuntimeError", "",
                                            <<>>, 0)),
                     !.pc = "raised"]]
    /\ UNCHANGED <<split, audit, users, ktask, karma, last_call, now, applied>>

(* bot.leave_chat(message.chat.id) *)
leave_chat(t) ==
    /\ task[t].pc = "start"
    /\ task[t].handler = "leave_chat"
    /\ \E r \in SendOutcomes :
          task' = [task EXCEPT ![t] =
              [@ EXCEPT !.trace = Append(@, Ev("leave_chat", TheChat, r,
                                               <<>>, 0)),
                        !.pc = after_send(r)]]
    /\ UNCHANGED <<split, audit, users, ktask, karma, last_call, now, applied>>

(* bot.send_document(config.dump_chat_id, karma.db) *)
get_dump(t) ==
    /\ task[t].pc = "start"
    /\ task[t].handler = "get_dump"
    /\ \E r \in SendOutcomes :
          task' = [task EXCEPT ![t] =
              [@ EXCEPT !.trace = Append(@, Ev("send_document", "karma.db", r,
                                               <<>>, 0)),
                        !.pc = after_send(r)]]
    /\ UNCHANGED <<split, audit, users, ktask, karma, last_call, now, applied>>

SuperNext ==
    \E t \in Tasks :
        \/ SuperDispatch(t)
        \/ exception(t)
        \/ leave_chat(t)
        \/ get_dump(t)

SuperSpec == Init /\ [][SuperNext]_vars

SuperHandlerNames == {"exception", "leave_chat", "get_dump"}

SuperEvents == {"raise", "leave_chat", "send_document"}

(* C15: the exception, leave-chat and dump handlers run only for messages
   whose sender is in the configured superuser list; for a message from
   any other sender none of them runs, whatever its command: the bot does
   not leave the chat and does not send the database file. *)
C15_SuperuserGate ==
    \A t \in Tasks :
        /\ (task[t].handler \in SuperHandlerNames
            \/ HasEv(task[t].trace, SuperEvents)) =>
              task[t].msg.from_user \in Superusers
        /\ (task[t].pc # "idle" /\ task[t].msg.from_user \notin Superusers) =>
              /\ task[t].pc = "unhandled"
              /\ task[t].handler = "none"
              /\ task[t].trace = <<>>

C15_Witness ==
    \E t1, t2 \in Tasks :
        /\ task[t1].msg.from_user = "u3"
        /\ task[t1].msg.command = "dump"
        /\ task[t1].pc = "unhandled"
        /\ task[t2].msg.from_user = "u1"
        /\ task[t2].msg.command = "get_out"
        /\ HasEv(task[t2].trace, {"leave_chat"})

(***************************************************************************)
(* split_text_file and send_text_file.  A text is a sequence of pieces; a  *)
(* piece [line, chars] is chars characters of line number line of the      *)
(* file (line 0 is the header the function writes itself), so that the     *)
(* length of a text and the lines it holds can both be read from it.  A    *)
(* line of the file is [chars, amps]: its length with the newline that     *)
(* ends it, and how many of its characters are "&"; it has no blank        *)
(* inside.                                                                 *)
(***************************************************************************)
MAX_MESSAGE_SYMBOLS == 4000

MaxLines == 4

(* the lines a log file is made of *)
LineKinds == {[chars |-> 1000, amps |-> 0],
              [chars |-> 2500, amps |-> 0],
              [chars |-> 3999, amps |-> 1]}

RECURSIVE SeqsUpTo(_, _)
SeqsUpTo(S, n) ==
    IF n = 0 THEN {<<>>}
    ELSE LET shorter == SeqsUpTo(S, n - 1)
         IN  shorter \cup {Append(f, x) : f \in shorter, x \in S}

Files == SeqsUpTo(LineKinds, MaxLines)

(* f"{hbold(file_name)}:\n" for a file name of 9 characters: <b>, the
   name, </b>, the colon and the newline *)
Header == <<[line |-> 0, chars |-> 3 + 9 + 4 + 2]>>

(* quote_html: every "&" becomes "&amp;" *)
quote_html(line) == line.chars + 4 * line.amps

RECURSIVE len(_)
len(text) == IF text = <<>> THEN 0 ELSE Head(text).chars + len(Tail(text))

(* textwrap.wrap of n characters without a blank: pieces of width
   characters, the last one the remainder *)
RECURSIVE wrap(_, _, _)
wrap(i, n, width) ==
    IF n = 0 THEN <<>>
    ELSE IF n <= width THEN << <<[line |-> i, chars |-> n]>> >>
    ELSE << <<[line |-> i, chars |-> width]>> >> \o wrap(i, n - width, width)

(* line 19: open(file_name), and lines 17-18 *)
SplitOpen ==
    /\ split.pc = "idle"
    /\ \E file \in Files :
          split' = [split EXCEPT !.pc = "lines", !.file = file,
                                 !.buffer_lines = Header, !.rez = <<>>]
    /\ UNCHANGED <<task, audit, users, ktask, karma, last_call, now, applied>>

(* lines 21-33: one turn of the loop over the lines of the file; wrap is
   given the line without the newline that ends it, which it drops *)
SplitLine ==
    /\ split.pc = "lines"
    /\ split.position < Len(split.file)
    /\ LET i == split.position + 1
           line == quote_html(split.file[i])
       IN  IF line > MAX_MESSAGE_SYMBOLS
           THEN split' = [split EXCEPT
                    !.position = i,
                    !.rez = Append(@, split.buffer_lines)
                            \o wrap(i, line - 1, MAX_MESSAGE_SYMBOLS),
                    !.buffer_lines = <<>>]
           ELSE IF len(split.buffer_lines) + line > MAX_MESSAGE_SYMBOLS
           THEN split' = [split EXCEPT
                    !.position = i,
                    !.rez = Append(@, split.buffer_lines),
                    !.buffer_lines = <<>>]
           ELSE split' = [split EXCEPT
                    !.position = i,
                    !.buffer_lines = Append(@, [line |-> i, chars |-> line])]
    /\ UNCHANGED <<task, audit, users, ktask, karma, last_call, now, applied>>

(* lines 34-37: the rest of the buffer, truncate, return *)
SplitClose ==
    /\ split.pc = "lines"
    /\ split.position = Len(split.file)
    /\ split' = [split EXCEPT
           !.rez = IF len(split.buffer_lines) > 0
                   THEN Append(@, split.buffer_lines) ELSE @,
           !.truncated = TRUE,
           !.pc = "returned"]
    /\ UNCHANGED <<task, audit, users, ktask, karma, last_call, now, applied>>

split_text_file ==
    \/ SplitOpen
    \/ SplitLine
    \/ SplitClose

(* splitlines of a part: every piece of a buffer ends a line, a wrapped
   part is one line *)
splitlines(part) == Len(part)

(* lines 52-55: nothing is sent when the file gave one part of one line *)
send_text_file ==
    /\ split.pc = "returned"
    /\ split' = [split EXCEPT
           !.sent = IF Len(split.rez) = 1 /\ splitlines(split.rez[1]) = 1
                    THEN <<>> ELSE split.rez,
           !.pc = "done"]
    /\ UNCHANGED <<task, audit, users, ktask, karma, last_call, now, applied>>

SplitNext ==
    \/ split_text_file
    \/ send_text_file

SplitSpec == Init /\ [][SplitNext]_vars

(* the numbers of the file's lines in the order the parts hold them *)
RECURSIVE LinesOf(_)
LinesOf(parts) ==
    IF parts = <<>> THEN <<>>
    ELSE [p \in DOMAIN Head(parts) |-> Head(parts)[p].line]
         \o LinesOf(Tail(parts))

Placed(i, parts) ==
    \E c \in DOMAIN parts : \E p \in DOMAIN parts[c] : parts[c][p].line = i

InFileOrder(parts) ==
    LET ls == LinesOf(parts)
    IN  \A a, b \in DOMAIN ls : a < b => ls[a] <= ls[b]

(* C20 as stated: every line of the file is in the returned parts, in file
   order; every part is non-empty and at most 4000 characters long; the
   file is truncated only when all its lines are in the parts. *)
C20_SplitLosesNothing ==
    /\ split.pc \in {"returned", "done"} =>
          /\ \A i \in DOMAIN split.file : Placed(i, split.rez)
          /\ InFileOrder(split.rez)
          /\ \A c \in DOMAIN split.rez :
                /\ split.rez[c] # <<>>
                /\ len(split.rez[c]) <= 4000
    /\ split.truncated =>
          \A i \in DOMAIN split.file : Placed(i, split.rez)

=============================================================================
